---- MODULE Spec2Model ----
(***************************************************************************)
(* Model of the CloudSpend advisor: the D1 persistence store (d1.ts), the  *)
(* Worker's HTTP handlers (server.ts) and the chat hook's send path        *)
(* (hooks/useChat.ts).                                                      *)
(*                                                                         *)
(* Texts are sequences of tokens (words and the whitespace token " ").     *)
(* An optional JSON field is a sequence of length 0 (undefined) or 1.      *)
(* Timestamps are datetime('now') values: whole seconds of the clock now.  *)
(***************************************************************************)
EXTENDS Integers, Sequences, FiniteSets, TLC

\* ------------------------------------------------------------------ bounds
MaxTime == 1
MaxStoreOps == 3
MaxReqs == 1

\* ------------------------------------------------------------- value sets
Users == {"guest", "alice"}
NoThread == 0
Roles == {"user", "assistant"}
Undefined == <<>>
Some(v) == <<v>>
EmptyText == <<>>
Hello == <<"hello">>
Costs == <<"costs">>
Weather == <<"Weather", " ", "costs">>
PlanText == <<"plan">>
MetricsText == <<"metrics">>
ReplyText == <<"reply">>
ReqIds == 1..MaxReqs

\* The messages direct store calls save: role, content and relevance flag.
StoreMessages ==
    {[role |-> "user", content |-> Hello, relevant |-> TRUE],
     [role |-> "assistant", content |-> Costs, relevant |-> FALSE]}

VARIABLES
    conversations,  \* rows of table conversations, in rowid order
    messages,       \* rows of table messages, in id (AUTOINCREMENT) order
    analyses,       \* rows of table analyses, in id order
    now,            \* the database clock, in seconds
    lastOp,         \* the last direct store call and what it returned
    reqs,           \* the HTTP requests the Worker has accepted, by arrival
    client          \* the state of one mounted useChat hook

storeVars == <<conversations, messages, analyses, now>>
serverVars == <<reqs>>
clientVars == <<client>>
vars == <<conversations, messages, analyses, now, lastOp, reqs, client>>

\* ------------------------------------------------------------ sequences
Range(s) == {s[i] : i \in DOMAIN s}

Last(s) == s[Len(s)]

\* The strictly increasing sequence of the elements of a finite set of numbers.
RECURSIVE SortedSeq(_)
SortedSeq(S) ==
    IF S = {} THEN <<>>
    ELSE LET m == CHOOSE x \in S : \A y \in S : x <= y
         IN <<m>> \o SortedSeq(S \ {m})

\* All orderings (sequences without repetition) of the finite set S.
Orderings(S) ==
    {p \in [1..Cardinality(S) -> S] : \A i, j \in 1..Cardinality(S) : i # j => p[i] # p[j]}

\* ---------------------------------------------------------------- d1.ts
ConversationRow(id, userId) ==
    [threadId |-> id, userId |-> userId, title |-> "New Conversation", createdAt |-> now]

MessageRow(userId, threadId, role, content, relevant) ==
    [userId |-> userId, threadId |-> threadId, role |-> role, content |-> content,
     relevant |-> IF relevant THEN 1 ELSE 0, createdAt |-> now]

UsedThreadIds == {conversations[i].threadId : i \in DOMAIN conversations}

\* crypto.randomUUID(): an id no row carries yet (ids are opaque and only ever
\* compared for equality, so the next unused number stands for it).
NewThreadId == Len(conversations) + 1

\* SELECT threadId FROM conversations WHERE userId = ?
\* ORDER BY datetime(createdAt) DESC LIMIT 1: rows with the greatest createdAt
\* are ordered among themselves as the engine pleases.
LatestThreadIn(convs, userId) ==
    LET rows == {i \in DOMAIN convs : convs[i].userId = userId}
        top == {i \in rows : \A j \in rows : convs[j].createdAt <= convs[i].createdAt}
    IN IF rows = {} THEN {NoThread} ELSE {convs[i].threadId : i \in top}

LatestThreadResults(userId) == LatestThreadIn(conversations, userId)

\* The ids of the rows SELECT ... FROM messages WHERE userId = ? AND threadId = ? matches.
MatchingIn(msgs, userId, threadId) ==
    {i \in DOMAIN msgs : msgs[i].userId = userId /\ msgs[i].threadId = threadId}

MatchingMessages(userId, threadId) == MatchingIn(messages, userId, threadId)

\* ORDER BY datetime(createdAt) ASC: every ordering of the matching rows that is
\* ascending in createdAt; rows of one second come in any order.  Built from the
\* front: any row of the earliest second, then an ordering of the rest.
RECURSIVE OrderedByCreatedAt(_, _)
OrderedByCreatedAt(msgs, rows) ==
    IF rows = {} THEN {<<>>}
    ELSE LET first == {i \in rows : \A j \in rows : msgs[i].createdAt <= msgs[j].createdAt}
         IN UNION {{<<i>> \o p : p \in OrderedByCreatedAt(msgs, rows \ {i})} : i \in first}

\* results.map(msg => ({role, content}))
MessageOf(row) == [role |-> row.role, content |-> row.content]

ThreadMessagesIn(msgs, userId, threadId) ==
    {[k \in DOMAIN p |-> MessageOf(msgs[p[k]])] :
        p \in OrderedByCreatedAt(msgs, MatchingIn(msgs, userId, threadId))}

ThreadMessagesResults(userId, threadId) == ThreadMessagesIn(messages, userId, threadId)

\* interface Message { role; content; relevant?: boolean }: reading the optional
\* field of a message that does not carry it gives undefined.
RelevantOf(m) == IF "relevant" \in DOMAIN m THEN Some(m.relevant) ELSE Undefined

\* array.join("\n") on texts
RECURSIVE JoinLines(_)
JoinLines(lines) ==
    IF lines = <<>> THEN EmptyText
    ELSE IF Len(lines) = 1 THEN lines[1]
    ELSE lines[1] \o <<"\n">> \o JoinLines(Tail(lines))

NoMessages == <<"No messages.">>

\* `${r.role}: ${r.content}`
ThreadTextLine(r) == <<r.role, ": ">> \o r.content

\* getFullThreadText that joins whatever it selected, rows or none.
FullThreadText_NoSentinel(rows) == JoinLines([k \in DOMAIN rows |-> ThreadTextLine(rows[k])])

\* if (!results?.length) return "No messages."; else the lines joined by "\n"
FullThreadText(rows) ==
    IF Len(rows) = 0 THEN NoMessages
    ELSE JoinLines([k \in DOMAIN rows |-> ThreadTextLine(rows[k])])

\* getFullThreadText selects as getThreadMessages does: role and content of the
\* rows of (userId, threadId), ORDER BY datetime(createdAt) ASC.
FullThreadTextResults(userId, threadId) ==
    {FullThreadText(rows) : rows \in ThreadMessagesResults(userId, threadId)}

\* SELECT threadId, title, createdAt, (SELECT COUNT(*) FROM messages WHERE
\* messages.threadId = conversations.threadId) AS msgCount: the count is over all
\* message rows of the thread.
ThreadSummary(conv, msgs) ==
    [threadId |-> conv.threadId, title |-> conv.title, createdAt |-> conv.createdAt,
     msgCount |-> Cardinality({i \in DOMAIN msgs : msgs[i].threadId = conv.threadId})]

\* FROM conversations WHERE userId = ? ORDER BY datetime(createdAt) DESC
ListThreadsResults(userId) ==
    LET rows == {i \in DOMAIN conversations : conversations[i].userId = userId}
    IN {[k \in DOMAIN p |-> ThreadSummary(conversations[p[k]], messages)] :
           p \in {q \in Orderings(rows) :
                     \A i, j \in DOMAIN q :
                        i < j => conversations[q[i]].createdAt >= conversations[q[j]].createdAt}}

\* ------------------------------------------------- direct calls of the store
NoOp == [op |-> "none"]

Tick ==
    /\ now < MaxTime
    /\ now' = now + 1
    /\ UNCHANGED <<conversations, messages, analyses, lastOp, serverVars, clientVars>>

StoreWrites == Len(conversations) + Len(messages) + Len(analyses)

StoreCreateThread(userId) ==
    /\ StoreWrites < MaxStoreOps
    /\ conversations' = Append(conversations, ConversationRow(NewThreadId, userId))
    /\ lastOp' = [op |-> "createThread", userId |-> userId, ret |-> NewThreadId]
    /\ UNCHANGED <<messages, analyses, now, serverVars, clientVars>>

StoreGetLatestThread(userId) ==
    \E t \in LatestThreadResults(userId) :
        /\ lastOp' = [op |-> "getLatestThread", userId |-> userId, ret |-> t,
                      created |-> IF lastOp.op = "createThread" /\ lastOp.userId = userId
                                  THEN lastOp.ret ELSE NoThread]
        /\ UNCHANGED <<storeVars, serverVars, clientVars>>

StoreSaveMessage(userId, threadId, role, content, relevant) ==
    /\ StoreWrites < MaxStoreOps
    /\ threadId \in UsedThreadIds      \* FOREIGN KEY (threadId) REFERENCES conversations
    /\ messages' = Append(messages, MessageRow(userId, threadId, role, content, relevant))
    /\ lastOp' = [op |-> "saveMessage", userId |-> userId, threadId |-> threadId]
    /\ UNCHANGED <<conversations, analyses, now, serverVars, clientVars>>

StoreGetThreadMessages(userId, threadId) ==
    \E r \in ThreadMessagesResults(userId, threadId) :
        /\ lastOp' = [op |-> "getThreadMessages", userId |-> userId, threadId |-> threadId,
                      ret |-> r]
        /\ UNCHANGED <<storeVars, serverVars, clientVars>>

StoreGetFullThreadText(userId, threadId) ==
    \E r \in FullThreadTextResults(userId, threadId) :
        /\ lastOp' = [op |-> "getFullThreadText", userId |-> userId, threadId |-> threadId,
                      ret |-> r]
        /\ UNCHANGED <<storeVars, serverVars, clientVars>>

StoreListThreads(userId) ==
    \E r \in ListThreadsResults(userId) :
        /\ lastOp' = [op |-> "listThreads", userId |-> userId, ret |-> r]
        /\ UNCHANGED <<storeVars, serverVars, clientVars>>

\* ------------------------------------------------------------ server.ts
GuestUser == "guest"

\* JavaScript on optional strings: x ?? "", x || "" and the truthiness of x.
Truthy(opt) == opt # Undefined /\ opt[1] # EmptyText

NullishOr(opt) == IF opt = Undefined THEN EmptyText ELSE opt[1]

LogicalOr(opt) == IF Truthy(opt) THEN opt[1] ELSE EmptyText

\* String.prototype.trim on a token sequence: whitespace tokens leave both ends.
RECURSIVE TrimStart(_)
TrimStart(text) ==
    IF text # <<>> /\ Head(text) = " " THEN TrimStart(Tail(text)) ELSE text

RECURSIVE TrimEnd(_)
TrimEnd(text) ==
    IF text # <<>> /\ Last(text) = " " THEN TrimEnd(SubSeq(text, 1, Len(text) - 1)) ELSE text

Trim(text) == TrimEnd(TrimStart(text))

\* The /i flag: matching ignores case.
LowerToken(tok) ==
    CASE tok = "Weather" -> "weather"
      [] tok = "Hello" -> "hello"
      [] OTHER -> tok

Lower(text) == [k \in DOMAIN text |-> LowerToken(text[k])]

\* pattern.test(text) for one alternative of a pattern: it occurs somewhere in text.
Occurs(alt, text) ==
    \E i \in 1..Len(text) :
        i + Len(alt) - 1 <= Len(text) /\ SubSeq(Lower(text), i, i + Len(alt) - 1) = alt

OffTopicPatterns ==
    {{<<"weather">>, <<"forecast">>, <<"rain">>, <<"sunny">>, <<"temperature">>},
     {<<"sports">>, <<"football">>, <<"basketball">>, <<"soccer">>, <<"game">>, <<"team">>},
     {<<"politics">>, <<"election">>, <<"government">>, <<"vote">>},
     {<<"movies">>, <<"netflix">>, <<"entertainment">>, <<"actor">>, <<"actress">>},
     {<<"cooking">>, <<"recipe">>, <<"food">>, <<"restaurant">>},
     {<<"how", " ", "are", " ", "you">>, <<"how's", " ", "it", " ", "going">>,
      <<"how", " ", "do", " ", "you", " ", "do">>},
     {<<"tell", " ", "me", " ", "a", " ", "joke">>, <<"make", " ", "me", " ", "laugh">>},
     {<<"what", " ", "time", " ", "is", " ", "it">>, <<"what", " ", "day", " ", "is", " ", "it">>}}

\* The patterns without their /i flag.
isClearlyOffTopic_CaseSensitive(text) ==
    IF Trim(text) = EmptyText THEN FALSE
    ELSE \E pattern \in OffTopicPatterns : \E alt \in pattern :
            \E i \in 1..Len(text) :
                i + Len(alt) - 1 <= Len(text) /\ SubSeq(text, i, i + Len(alt) - 1) = alt

isClearlyOffTopic(text) ==
    IF Trim(text) = EmptyText THEN FALSE
    ELSE \E pattern \in OffTopicPatterns : \E alt \in pattern : Occurs(alt, text)

PoliteResponse == <<"I specialize in cloud cost optimization.">>

\* What env.AI.run can do: throw, or return an object whose response is missing,
\* empty or a text.
AiOutcomes ==
    {[threw |-> TRUE, response |-> Undefined],
     [threw |-> FALSE, response |-> Undefined],
     [threw |-> FALSE, response |-> Some(EmptyText)],
     [threw |-> FALSE, response |-> Some(ReplyText)]}

\* A callLlama that answers "..." when the response carries no text.
callLlama_DefaultsEmptyReply(ai) ==
    IF ai.threw THEN [ok |-> FALSE, text |-> EmptyText]
    ELSE [ok |-> TRUE, text |-> IF Truthy(ai.response) THEN ai.response[1] ELSE <<"...">>]

\* callLlama: the text of the response, or a thrown "AI service error".
callLlama(ai) ==
    IF ai.threw \/ ~Truthy(ai.response)
    THEN [ok |-> FALSE, text |-> EmptyText]
    ELSE [ok |-> TRUE, text |-> ai.response[1]]

AnalysisMaxTokens == 4000
ChatMaxTokens == 2000
ContextLines == 15
HistoryTurns == 10

\* A slice that keeps the first n elements.
SliceLast_FromStart(s, n) == IF Len(s) <= n THEN s ELSE SubSeq(s, 1, n)

\* array.slice(-n)
SliceLast(s, n) == IF Len(s) <= n THEN s ELSE SubSeq(s, Len(s) - n + 1, Len(s))

\* `${m.role}: ${m.content}`
RoleContentLine(m) == <<m.role, ": ">> \o m.content

\* The messages analyzeCostsWithLLM hands to callLlama: the cost-analysis
\* template with plan, metrics and comment embedded.
AnalysisPrompt(plan, metrics, comment) ==
    [template |-> "analysis", embedded |-> <<plan, metrics, comment>>, turns |-> <<>>,
     maxTokens |-> AnalysisMaxTokens]

\* The messages of a regular conversation: the system turn with the last 15
\* context lines, the last 10 context turns, the new user turn.
ConversationPrompt(context, message) ==
    LET window == SliceLast(context, ContextLines)
        history == SliceLast(context, HistoryTurns)
    IN [template |-> "conversation",
        embedded |-> [k \in DOMAIN window |-> RoleContentLine(window[k])],
        turns |-> [k \in DOMAIN history |-> [role |-> history[k].role, content |-> history[k].content]]
                  \o <<[role |-> "user", content |-> LogicalOr(message)]>>,
        maxTokens |-> ChatMaxTokens]

\* ------------------------------------------------------ requests in flight
EmptyBody == [message |-> Undefined, plan |-> Undefined, metrics |-> Undefined, threadId |-> Undefined]

NoResp == [status |-> 0, json |-> FALSE, reply |-> Undefined, threadId |-> NoThread,
           error |-> FALSE, messages |-> Undefined, threads |-> Undefined,
           summary |-> Undefined]

IdleReq ==
    [kind |-> "none", pc |-> "idle", body |-> EmptyBody, query |-> NoThread,
     threadId |-> NoThread, context |-> <<>>, llm |-> <<>>, result |-> EmptyText,
     wrote |-> <<>>, seenThreads |-> 0, seen |-> 0, fault |-> FALSE, failedAt |-> "none",
     resp |-> NoResp]

JsonResp(status) == [NoResp EXCEPT !.status = status, !.json = TRUE]

\* Response.json({ reply, threadId })
ReplyResp(reply, threadId) == [JsonResp(200) EXCEPT !.reply = Some(reply), !.threadId = threadId]

\* The catch block of POST /api/chat: Response.json({ error }, { status: 500 })
ChatErrorResp == [JsonResp(500) EXCEPT !.error = TRUE]

\* Response.json({ messages })
MessagesResp(msgs) == [JsonResp(200) EXCEPT !.messages = Some(msgs)]

\* Cloud data only when both files are there.
hasCloudData_NeedsBoth(body) == Truthy(body.plan) /\ Truthy(body.metrics)

hasCloudData(body) == Truthy(body.plan) \/ Truthy(body.metrics)

\* The request bodies POST /api/chat is tried with: every message with every
\* combination of attached plan and metrics, for every thread id a caller can know.
MessageInputs == {Undefined, Some(EmptyText), Some(Hello), Some(Weather)}
FileInputs ==
    {[plan |-> Undefined, metrics |-> Undefined],
     [plan |-> Some(EmptyText), metrics |-> Some(EmptyText)],
     [plan |-> Some(PlanText), metrics |-> Some(EmptyText)],
     [plan |-> Undefined, metrics |-> Some(MetricsText)],
     [plan |-> Some(PlanText), metrics |-> Some(MetricsText)]}
ThreadIdInputs == {Undefined} \cup {Some(t) : t \in UsedThreadIds}

Bodies ==
    {[message |-> m, plan |-> f.plan, metrics |-> f.metrics, threadId |-> t] :
        m \in MessageInputs, f \in FileInputs, t \in ThreadIdInputs}

Accept(r, kind, pc, body, query) ==
    /\ reqs[r].pc = "idle"
    /\ \A q \in DOMAIN reqs : q < r => reqs[q].pc # "idle"
    /\ reqs' = [reqs EXCEPT ![r] = [IdleReq EXCEPT !.kind = kind, !.pc = pc, !.body = body,
                                                   !.query = query]]
    /\ UNCHANGED <<storeVars, lastOp>>

\* POST /api/chat arrives.
ChatStart(r, body) == Accept(r, "chat", "getLatest", body, NoThread) /\ UNCHANGED clientVars

\* let threadId = await getLatestThread(env, userId)
ChatGetLatest(r) ==
    /\ reqs[r].pc = "getLatest"
    /\ \E t \in LatestThreadResults(GuestUser) :
          reqs' = [reqs EXCEPT ![r].threadId = t,
                               ![r].pc = IF t = NoThread THEN "create" ELSE "saveUser"]
    /\ UNCHANGED <<storeVars, lastOp, clientVars>>

\* if (!threadId) threadId = await createThread(env, userId)
ChatCreateThread(r) ==
    /\ reqs[r].pc = "create"
    /\ conversations' = Append(conversations, ConversationRow(NewThreadId, GuestUser))
    /\ reqs' = [reqs EXCEPT ![r].threadId = NewThreadId, ![r].pc = "saveUser",
                            ![r].wrote = Append(@, [table |-> "conversations", id |-> NewThreadId])]
    /\ UNCHANGED <<messages, analyses, now, lastOp, clientVars>>

\* A saveMessage that writes over the newest row when there is one.
SaveMessageBy_Overwrites(r, role, content, pc, resp) ==
    /\ messages' = IF messages = <<>>
                   THEN <<MessageRow(GuestUser, reqs[r].threadId, role, content, TRUE)>>
                   ELSE [messages EXCEPT ![Len(messages)] =
                            MessageRow(GuestUser, reqs[r].threadId, role, content, TRUE)]
    /\ reqs' = [reqs EXCEPT ![r].pc = pc, ![r].resp = resp,
                            ![r].wrote = Append(@, [table |-> "messages", id |-> Len(messages')])]
    /\ UNCHANGED <<conversations, analyses, now, lastOp, clientVars>>

\* The request's saveMessage calls: one more row, remembered as written by r.
SaveMessageBy(r, role, content, pc, resp) ==
    /\ messages' = Append(messages, MessageRow(GuestUser, reqs[r].threadId, role, content, TRUE))
    /\ reqs' = [reqs EXCEPT ![r].pc = pc, ![r].resp = resp,
                            ![r].wrote = Append(@, [table |-> "messages", id |-> Len(messages) + 1])]
    /\ UNCHANGED <<conversations, analyses, now, lastOp, clientVars>>

\* A handler that goes on without saving the user message.
ChatSaveUser_Skipped(r) ==
    /\ reqs[r].pc = "saveUser"
    /\ reqs' = [reqs EXCEPT ![r].pc =
                    IF ~hasCloudData(reqs[r].body) /\ isClearlyOffTopic(LogicalOr(reqs[r].body.message))
                    THEN "saveRedirect" ELSE "getContext"]
    /\ UNCHANGED <<storeVars, lastOp, clientVars>>

\* await saveMessage(env, userId, threadId, "user", message ?? "", true), then the
\* off-topic test that picks the branch.
ChatSaveUser(r) ==
    /\ reqs[r].pc = "saveUser"
    /\ SaveMessageBy(r, "user", NullishOr(reqs[r].body.message),
                     IF ~hasCloudData(reqs[r].body) /\ isClearlyOffTopic(LogicalOr(reqs[r].body.message))
                     THEN "saveRedirect" ELSE "getContext",
                     NoResp)

\* The off-topic branch: save the fixed reply and return it.
ChatSaveRedirect(r) ==
    /\ reqs[r].pc = "saveRedirect"
    /\ SaveMessageBy(r, "assistant", PoliteResponse, "done",
                     ReplyResp(PoliteResponse, reqs[r].threadId))

\* const context = await getThreadMessages(env, userId, threadId)
ChatGetContext(r) ==
    /\ reqs[r].pc = "getContext"
    /\ \E c \in ThreadMessagesResults(GuestUser, reqs[r].threadId) :
          reqs' = [reqs EXCEPT ![r].context = c,
                               ![r].pc = IF Truthy(reqs[r].body.plan) \/ Truthy(reqs[r].body.metrics)
                                         THEN "analyze" ELSE "converse"]
    /\ UNCHANGED <<storeVars, lastOp, clientVars>>

\* One call of callLlama with `prompt`: on success the text is kept and the request
\* goes on to `pc`; a throw lands in the catch block.
LlmCallBy(r, prompt, pc) ==
    /\ \E ai \in AiOutcomes :
          LET out == callLlama(ai)
          IN reqs' = [reqs EXCEPT ![r].llm = Append(@, [prompt |-> prompt, ai |-> ai]),
                                  ![r].result = out.text,
                                  ![r].pc = IF out.ok THEN pc ELSE "done",
                                  ![r].resp = IF out.ok THEN NoResp ELSE ChatErrorResp]
    /\ UNCHANGED <<storeVars, lastOp, clientVars>>

\* if (plan || metrics): const result = await analyzeCostsWithLLM(...)
ChatAnalyze(r) ==
    /\ reqs[r].pc = "analyze"
    /\ LlmCallBy(r, AnalysisPrompt(NullishOr(reqs[r].body.plan), NullishOr(reqs[r].body.metrics),
                                   NullishOr(reqs[r].body.message)), "saveResult")

\* await saveMessage(env, userId, threadId, "assistant", result, true)
ChatSaveResult(r) ==
    /\ reqs[r].pc = "saveResult"
    /\ SaveMessageBy(r, "assistant", reqs[r].result, "saveAnalysis", NoResp)

\* An analysis row that leaves the result text out.
AnalysisRow_NoResult(userId, threadId, plan, metrics, comment, result) ==
    [userId |-> userId, threadId |-> threadId, plan |-> plan, metrics |-> metrics,
     comment |-> comment, result |-> EmptyText, createdAt |-> now]

\* INSERT INTO analyses (userId, threadId, plan, metrics, comment, result, createdAt)
AnalysisRow(userId, threadId, plan, metrics, comment, result) ==
    [userId |-> userId, threadId |-> threadId, plan |-> plan, metrics |-> metrics,
     comment |-> comment, result |-> result, createdAt |-> now]

\* await saveAnalysis(...); return Response.json({ reply: result, threadId })
ChatSaveAnalysis(r) ==
    /\ reqs[r].pc = "saveAnalysis"
    /\ analyses' = Append(analyses,
          AnalysisRow(GuestUser, reqs[r].threadId, NullishOr(reqs[r].body.plan),
                      NullishOr(reqs[r].body.metrics), NullishOr(reqs[r].body.message),
                      reqs[r].result))
    /\ reqs' = [reqs EXCEPT ![r].pc = "done",
                            ![r].resp = ReplyResp(reqs[r].result, reqs[r].threadId),
                            ![r].wrote = Append(@, [table |-> "analyses", id |-> Len(analyses) + 1])]
    /\ UNCHANGED <<conversations, messages, now, lastOp, clientVars>>

\* const reply = await callLlama(env, messages, 2000, 0.3)
ChatConverse(r) ==
    /\ reqs[r].pc = "converse"
    /\ LlmCallBy(r, ConversationPrompt(reqs[r].context, reqs[r].body.message), "saveReply")

\* A handler that answers with the reply and leaves the assistant message unsaved.
ChatSaveReply_Unsaved(r) ==
    /\ reqs[r].pc = "saveReply"
    /\ reqs' = [reqs EXCEPT ![r].pc = "done",
                            ![r].resp = ReplyResp(reqs[r].result, reqs[r].threadId)]
    /\ UNCHANGED <<storeVars, lastOp, clientVars>>

\* await saveMessage(..., "assistant", reply, true); return Response.json({ reply, threadId })
ChatSaveReply(r) ==
    /\ reqs[r].pc = "saveReply"
    /\ SaveMessageBy(r, "assistant", reqs[r].result, "done",
                     ReplyResp(reqs[r].result, reqs[r].threadId))

\* ------------------------------------------------------- hooks/useChat.ts
\* useState initial values; pc is the await a handler is suspended at, req the
\* request it awaits, and sent remembers the last handleSend: the place of its user
\* turn in chat and how its POST /api/chat ended.  Session ids are opaque values
\* of crypto.randomUUID(), numbered in the order they are drawn; sessionBefore is
\* the session id the last handleNewChat found.
NotSent == [turn |-> 0, req |-> 0, arrived |-> FALSE]

IdleClient ==
    [message |-> EmptyText, chat |-> <<>>, loading |-> FALSE, fileUploads |-> <<>>,
     uploadSessionId |-> 1, currentThreadId |-> NoThread, isNewChat |-> FALSE,
     pc |-> "idle", req |-> 0, captured |-> EmptyBody, sent |-> NotSent,
     sessionBefore |-> 0]

\* A generateNewSessionId that keeps the session id it has.
generateNewSessionId_Same(c) == c

\* generateNewSessionId: setUploadSessionId(crypto.randomUUID())
generateNewSessionId(c) == [c EXCEPT !.uploadSessionId = @ + 1]

Blank == <<" ">>
TypedMessages == {EmptyText, Blank, Hello, Weather}

UploadedFilesText == <<"[Uploaded Files]">>
ErrorTurn == [role |-> "assistant", text |-> <<"Error: failed to reach server.">>]

\* response.ok
Ok(resp) == resp.status >= 200 /\ resp.status <= 299

\* setMessage(text): the user edits the input box.
ClientType(text) ==
    /\ client.pc = "idle"
    /\ client.message # text
    /\ client' = [client EXCEPT !.message = text]
    /\ UNCHANGED <<storeVars, lastOp, reqs>>

\* fetch(url, ...): the request reaches the Worker.
Fetch(r, kind, pc, body) == Accept(r, kind, pc, body, NoThread)

\* handleNewChat up to its await: reset the view and POST /api/chat/new.
ClientNewChat(r) ==
    /\ client.pc = "idle"
    /\ Fetch(r, "new", "fallThrough", EmptyBody)
    /\ client' = [client EXCEPT !.chat = <<>>, !.message = EmptyText, !.fileUploads = <<>>,
                                !.isNewChat = TRUE, !.pc = "newChat", !.req = r,
                                !.sent = NotSent, !.sessionBefore = client.uploadSessionId]

\* handleNewChat after its await: only an ok JSON answer holding a threadId sets
\* the current thread; a rejected fetch, a non-ok status, a body that is no JSON and
\* a missing threadId all clear it.  Every branch ends in generateNewSessionId().
ClientNewChatResponse ==
    /\ client.pc = "newChat"
    /\ reqs[client.req].pc = "done"
    /\ \E arrived \in BOOLEAN :
          LET resp == reqs[client.req].resp
              created == arrived /\ Ok(resp) /\ resp.json /\ resp.threadId # NoThread
          IN client' = generateNewSessionId(
                          [client EXCEPT
                              !.currentThreadId = IF created THEN resp.threadId ELSE NoThread,
                              !.pc = "idle", !.req = 0])
    /\ UNCHANGED <<storeVars, lastOp, reqs>>

CompletedUploads(uploads) == SelectSeq(uploads, LAMBDA f : f.status = "completed")

\* Sending enabled by any text in the box, blank or not.
isSendEnabled_Untrimmed(message, uploads) == Len(message) > 0 \/ Len(CompletedUploads(uploads)) > 0

\* isSendEnabled = hasMessage || hasCompletedUploads
isSendEnabled(message, uploads) == Len(Trim(message)) > 0 \/ Len(CompletedUploads(uploads)) > 0

\* The user turn handleSend appends.
UserTurn(message, uploads) ==
    [role |-> "user",
     text |-> IF Len(Trim(message)) > 0 THEN message
              ELSE IF Len(CompletedUploads(uploads)) > 0 THEN UploadedFilesText ELSE EmptyText]

\* requestBody: message only when there is one, threadId only when it is truthy.
RequestBody(message, threadId) ==
    [EmptyBody EXCEPT !.message = IF Len(Trim(message)) > 0 THEN Some(message) ELSE Undefined,
                      !.threadId = IF threadId # NoThread THEN Some(threadId) ELSE Undefined]

\* handleSend up to its first await: if (!isSendEnabled) return; else the user
\* turn is appended, the input is cleared, and either the thread of a new chat is
\* asked for first or the message is posted.
ClientSend(r) ==
    /\ client.pc = "idle"
    /\ IF ~isSendEnabled(client.message, client.fileUploads)
       THEN UNCHANGED vars
       ELSE LET needsThread == client.currentThreadId = NoThread /\ client.isNewChat
                body == RequestBody(client.message, client.currentThreadId)
            IN /\ IF needsThread
                  THEN Fetch(r, "new", "fallThrough", EmptyBody)
                  ELSE Fetch(r, "chat", "getLatest", body)
               /\ client' = [client EXCEPT
                      !.loading = TRUE, !.message = EmptyText, !.fileUploads = <<>>,
                      !.chat = Append(@, UserTurn(client.message, client.fileUploads)),
                      !.pc = IF needsThread THEN "sendNew" ELSE "sendChat",
                      !.req = r, !.captured = body,
                      !.sent = [NotSent EXCEPT !.turn = Len(client.chat) + 1]]

\* The catch block of handleSend and its finally.
SendCaught(c) ==
    [c EXCEPT !.chat = Append(@, ErrorTurn), !.loading = FALSE, !.pc = "idle", !.req = 0]

\* A handleSend that posts the message whatever the answer to POST /api/chat/new.
ClientSendNewResponse_PostsAnyway(r) ==
    /\ client.pc = "sendNew"
    /\ reqs[client.req].pc = "done"
    /\ Fetch(r, "chat", "getLatest", client.captured)
    /\ client' = [client EXCEPT !.isNewChat = FALSE, !.pc = "sendChat", !.req = r]

\* handleSend after awaiting POST /api/chat/new: an ok answer is parsed and its
\* threadId becomes the thread of the message, which is then posted; a rejected
\* fetch, a non-ok status and a body that is no JSON land in the catch block.
ClientSendNewResponse(r) ==
    /\ client.pc = "sendNew"
    /\ reqs[client.req].pc = "done"
    /\ \E arrived \in BOOLEAN :
          LET resp == reqs[client.req].resp
          IN IF arrived /\ Ok(resp) /\ resp.json
             THEN /\ Fetch(r, "chat", "getLatest",
                           [client.captured EXCEPT
                               !.threadId = IF resp.threadId # NoThread
                                            THEN Some(resp.threadId) ELSE Undefined])
                  /\ client' = [client EXCEPT !.currentThreadId = resp.threadId,
                                              !.isNewChat = FALSE,
                                              !.pc = "sendChat", !.req = r]
             ELSE /\ client' = SendCaught(client)
                  /\ UNCHANGED <<storeVars, lastOp, reqs>>

\* handleSend after awaiting POST /api/chat: the body is parsed whatever the
\* status; a truthy data.reply is appended as the assistant turn, and nothing is
\* appended without one.  Only a rejected fetch lands in the catch block.
ClientSendChatResponse ==
    /\ client.pc = "sendChat"
    /\ reqs[client.req].pc = "done"
    /\ \E arrived \in BOOLEAN :
          LET resp == reqs[client.req].resp
              done == [client EXCEPT !.loading = FALSE, !.pc = "idle", !.req = 0,
                                     !.sent = [@ EXCEPT !.req = client.req, !.arrived = arrived]]
          IN client' =
                IF ~arrived THEN SendCaught(done)
                ELSE IF Truthy(resp.reply)
                THEN generateNewSessionId(
                        [done EXCEPT
                           !.chat = Append(@, [role |-> "assistant", text |-> resp.reply[1]]),
                           !.currentThreadId = IF resp.threadId # NoThread THEN resp.threadId ELSE @,
                           !.isNewChat = FALSE])
                ELSE done
    /\ UNCHANGED <<storeVars, lastOp, reqs>>

Init ==
    /\ conversations = <<>>
    /\ messages = <<>>
    /\ analyses = <<>>
    /\ now = 0
    /\ lastOp = NoOp
    /\ reqs = [r \in ReqIds |-> IdleReq]
    /\ client = IdleClient

StoreNext ==
    \/ Tick
    \/ \E u \in Users : StoreCreateThread(u)
    \/ \E u \in Users : StoreGetLatestThread(u)
    \/ \E u \in Users, t \in UsedThreadIds, m \in StoreMessages :
          StoreSaveMessage(u, t, m.role, m.content, m.relevant)
    \/ \E u \in Users, t \in UsedThreadIds : StoreGetThreadMessages(u, t)
    \/ \E u \in Users, t \in UsedThreadIds : StoreGetFullThreadText(u, t)
    \/ \E u \in Users : StoreListThreads(u)

StoreSpec == Init /\ [][StoreNext]_vars

\* C1: getThreadMessages(userId, threadId) returns the thread's messages in
\* exactly the order in which saveMessage inserted them, also when several of
\* them carry the same createdAt.
InsertionOrder(userId, threadId) ==
    LET ids == SortedSeq(MatchingMessages(userId, threadId))
    IN [k \in DOMAIN ids |-> MessageOf(messages[ids[k]])]

C1_ReadsInInsertionOrder ==
    lastOp.op = "getThreadMessages" => lastOp.ret = InsertionOrder(lastOp.userId, lastOp.threadId)

\* C2: getLatestThread(userId) called right after createThread(userId) returned
\* T returns T, whatever threads the user already has.
C2_LatestIsJustCreated ==
    (lastOp.op = "getLatestThread" /\ lastOp.created # NoThread) => lastOp.ret = lastOp.created

\* ------------------------------------------------------- the Worker at work
ChatStep(r) ==
    \/ ChatGetLatest(r)
    \/ ChatCreateThread(r)
    \/ ChatSaveUser(r)
    \/ ChatSaveRedirect(r)
    \/ ChatGetContext(r)
    \/ ChatAnalyze(r)
    \/ ChatSaveResult(r)
    \/ ChatSaveAnalysis(r)
    \/ ChatConverse(r)
    \/ ChatSaveReply(r)

\* GET /api/chat/history[?threadId=query] arrives.
HistoryStart(r, query) ==
    Accept(r, "history", "histLatest", EmptyBody, query) /\ UNCHANGED clientVars

\* const threadId = await getLatestThread(env, userId);
\* if (!threadId) return Response.json({ messages: [] })
HistoryGetLatest(r) ==
    /\ reqs[r].pc = "histLatest"
    /\ \E t \in LatestThreadResults(GuestUser) :
          reqs' = [reqs EXCEPT ![r].threadId = t, ![r].seenThreads = Len(conversations),
                               ![r].pc = IF t = NoThread THEN "done" ELSE "histMessages",
                               ![r].resp = IF t = NoThread THEN MessagesResp(<<>>) ELSE NoResp]
    /\ UNCHANGED <<storeVars, lastOp, clientVars>>

\* messages.map(msg => ({ role: msg.role, text: msg.content }))
TransformedMessages(msgs) == [k \in DOMAIN msgs |-> [role |-> msgs[k].role, text |-> msgs[k].content]]

\* const messages = await getThreadMessages(env, userId, threadId);
\* return Response.json({ messages: transformedMessages })
HistoryGetMessages(r) ==
    /\ reqs[r].pc = "histMessages"
    /\ \E c \in ThreadMessagesResults(GuestUser, reqs[r].threadId) :
          reqs' = [reqs EXCEPT ![r].pc = "done", ![r].seen = Len(messages),
                               ![r].resp = MessagesResp(TransformedMessages(c))]
    /\ UNCHANGED <<storeVars, lastOp, clientVars>>

\* POST /api/chat/new arrives: no branch of fetch matches it.
NewChatStart(r) == Accept(r, "new", "fallThrough", EmptyBody, NoThread) /\ UNCHANGED clientVars

\* What is left for a request no branch matches: routeAgentRequest declines it
\* and env.ASSETS.fetch answers with an asset or with "Not found"; neither is JSON.
AssetStatuses == {200, 404}

FallThrough(r) ==
    /\ reqs[r].pc = "fallThrough"
    /\ \E status \in AssetStatuses :
          reqs' = [reqs EXCEPT ![r].pc = "done", ![r].resp = [NoResp EXCEPT !.status = status]]
    /\ UNCHANGED <<storeVars, lastOp, clientVars>>

\* GET /api/chat/list arrives.
ListStart(r) == Accept(r, "list", "listThreads", EmptyBody, NoThread) /\ UNCHANGED clientVars

\* const threads = await listThreads(env, userId); return Response.json({ threads })
ListThreadsStep(r) ==
    /\ reqs[r].pc = "listThreads"
    /\ \E threads \in ListThreadsResults(GuestUser) :
          reqs' = [reqs EXCEPT ![r].pc = "done",
                               ![r].resp = [JsonResp(200) EXCEPT !.threads = Some(threads)]]
    /\ UNCHANGED <<storeVars, lastOp, clientVars>>

\* POST /api/chat/summarize arrives with body { threadId }.
SummarizeStart(r, threadId) ==
    /\ Accept(r, "summarize", IF threadId = Undefined THEN "sumReject" ELSE "sumText",
              [EmptyBody EXCEPT !.threadId = threadId], NoThread)
    /\ UNCHANGED clientVars

\* if (!threadId) return Response.json({ error: "threadId is required" }, { status: 400 })
SummarizeReject(r) ==
    /\ reqs[r].pc = "sumReject"
    /\ reqs' = [reqs EXCEPT ![r].pc = "done", ![r].resp = [JsonResp(400) EXCEPT !.error = TRUE]]
    /\ UNCHANGED <<storeVars, lastOp, clientVars>>

\* const full = await getFullThreadText(env, userId, threadId)
SummarizeGetText(r) ==
    /\ reqs[r].pc = "sumText"
    /\ \E full \in FullThreadTextResults(GuestUser, reqs[r].body.threadId[1]) :
          reqs' = [reqs EXCEPT ![r].pc = "sumLlm", ![r].result = full,
                               ![r].threadId = reqs[r].body.threadId[1]]
    /\ UNCHANGED <<storeVars, lastOp, clientVars>>

SummarizeMaxTokens == 1000

\* The one user turn of the summarize prompt: the instruction and the thread text.
SummaryPrompt(full) ==
    [template |-> "summary", embedded |-> <<full>>, turns |-> <<>>,
     maxTokens |-> SummarizeMaxTokens]

\* const summary = await callLlama(...); return Response.json({ summary }); a throw
\* lands in the catch block: Response.json({ error }, { status: 500 })
SummarizeLlm(r) ==
    /\ reqs[r].pc = "sumLlm"
    /\ \E ai \in AiOutcomes :
          LET out == callLlama(ai)
          IN reqs' = [reqs EXCEPT
                 ![r].llm = Append(@, [prompt |-> SummaryPrompt(reqs[r].result), ai |-> ai]),
                 ![r].pc = "done",
                 ![r].resp = IF out.ok THEN [JsonResp(200) EXCEPT !.summary = Some(out.text)]
                             ELSE ChatErrorResp]
    /\ UNCHANGED <<storeVars, lastOp, clientVars>>

\* The awaits of each handler that are calls of the store.
StoreCalls ==
    [chat |-> {"getLatest", "create", "saveUser", "saveRedirect", "getContext",
               "saveResult", "saveAnalysis", "saveReply"},
     history |-> {"histLatest", "histMessages"},
     list |-> {"listThreads"},
     summarize |-> {"sumText"}]

\* What the catch block of each handler answers.
CatchResp(kind) ==
    IF kind = "history" THEN MessagesResp(<<>>) ELSE ChatErrorResp

\* A call of the store throws (D1 is unreachable, a statement fails): the statement
\* changes nothing and the handler's catch block answers.
StoreFails(r) ==
    /\ reqs[r].kind \in DOMAIN StoreCalls
    /\ reqs[r].pc \in StoreCalls[reqs[r].kind]
    /\ reqs' = [reqs EXCEPT ![r].pc = "done", ![r].fault = TRUE,
                            ![r].failedAt = reqs[r].pc,
                            ![r].resp = CatchResp(reqs[r].kind)]
    /\ UNCHANGED <<storeVars, lastOp, clientVars>>

\* The bodies that name no thread.  The handler destructures plan, metrics and
\* message only and never reads body.threadId, so these bodies drive it through
\* every path the others do; bodies that name a thread are raced in ApiSpec.
LatestBodies == {b \in Bodies : b.threadId = Undefined}

\* The Worker handling chat requests.  The clock stands still here: all rows carry
\* one second, the case in which ORDER BY datetime(createdAt) constrains nothing, so
\* every result a read can give with distinct seconds is among those it gives here.
Next ==
    \/ \E r \in ReqIds, body \in LatestBodies : ChatStart(r, body)
    \/ \E r \in ReqIds : ChatGetLatest(r)
    \/ \E r \in ReqIds : ChatCreateThread(r)
    \/ \E r \in ReqIds : ChatSaveUser(r)
    \/ \E r \in ReqIds : ChatSaveRedirect(r)
    \/ \E r \in ReqIds : ChatGetContext(r)
    \/ \E r \in ReqIds : ChatAnalyze(r)
    \/ \E r \in ReqIds : ChatSaveResult(r)
    \/ \E r \in ReqIds : ChatSaveAnalysis(r)
    \/ \E r \in ReqIds : ChatConverse(r)
    \/ \E r \in ReqIds : ChatSaveReply(r)

Spec == Init /\ [][Next]_vars

\* ------------------------------------------- the whole HTTP surface, raced
\* Chat, history and new-chat requests of callers that know thread ids, up to
\* ApiReqs of them at once, starting from the empty database.
ApiReqs == MaxReqs + 2

ApiBodies ==
    {[message |-> Some(Hello), plan |-> Undefined, metrics |-> Undefined, threadId |-> t] :
        t \in ThreadIdInputs}

ApiInit ==
    /\ conversations = <<>>
    /\ messages = <<>>
    /\ analyses = <<>>
    /\ now = 0
    /\ lastOp = NoOp
    /\ reqs = [r \in 1..ApiReqs |-> IdleReq]
    /\ client = IdleClient

ApiNext ==
    \/ \E r \in DOMAIN reqs, body \in ApiBodies : ChatStart(r, body)
    \/ \E r \in DOMAIN reqs : ChatStep(r)
    \/ \E r \in DOMAIN reqs, t \in {NoThread} \cup UsedThreadIds : HistoryStart(r, t)
    \/ \E r \in DOMAIN reqs : HistoryGetLatest(r)
    \/ \E r \in DOMAIN reqs : HistoryGetMessages(r)
    \/ \E r \in DOMAIN reqs : NewChatStart(r)
    \/ \E r \in DOMAIN reqs : FallThrough(r)

ApiSpec == ApiInit /\ [][ApiNext]_vars

\* ------------------------------------------------- what earlier requests left
\* Databases the Worker leaves behind: nothing; one thread holding a completed
\* turn; two threads of two first requests that raced, a user message in each.
\* Their rows were written before the clock reached its present second.
Earlier(row) == [row EXCEPT !.createdAt = 0]

PriorStores ==
    {[conversations |-> <<>>, messages |-> <<>>],
     [conversations |-> <<Earlier(ConversationRow(1, GuestUser))>>,
      messages |-> <<Earlier(MessageRow(GuestUser, 1, "user", Hello, TRUE)),
                     Earlier(MessageRow(GuestUser, 1, "assistant", ReplyText, TRUE))>>],
     [conversations |-> <<Earlier(ConversationRow(1, GuestUser)),
                          Earlier(ConversationRow(2, GuestUser))>>,
      messages |-> <<Earlier(MessageRow(GuestUser, 1, "user", Hello, TRUE)),
                     Earlier(MessageRow(GuestUser, 2, "user", Hello, TRUE))>>]}

PriorInit ==
    /\ now = 1
    /\ \E s \in PriorStores : conversations = s.conversations /\ messages = s.messages
    /\ analyses = <<>>
    /\ lastOp = NoOp
    /\ client = IdleClient

\* ------------------------------------------------- the end-to-end scenario
\* One caller issues three requests, each after the answer to the one before.
ScenarioSteps == <<"new", "chat", "history">>

\* The threadId the caller reads from the answer to POST /api/chat/new.
ScenarioThread == IF reqs[1].resp.json THEN reqs[1].resp.threadId ELSE NoThread

ScenarioInit == PriorInit /\ reqs = [r \in DOMAIN ScenarioSteps |-> IdleReq]

ScenarioNew == NewChatStart(1)

ScenarioChat ==
    /\ reqs[1].pc = "done"
    /\ ChatStart(2, [EmptyBody EXCEPT !.message = Some(Hello),
                                      !.threadId = IF ScenarioThread = NoThread THEN Undefined
                                                   ELSE Some(ScenarioThread)])

ScenarioHistory ==
    /\ reqs[2].pc = "done"
    /\ HistoryStart(3, ScenarioThread)

ScenarioNext ==
    \/ ScenarioNew
    \/ FallThrough(1)
    \/ ScenarioChat
    \/ ChatGetLatest(2)
    \/ ChatCreateThread(2)
    \/ ChatSaveUser(2)
    \/ ChatGetContext(2)
    \/ ChatConverse(2)
    \/ ChatSaveReply(2)
    \/ ScenarioHistory
    \/ HistoryGetLatest(3)
    \/ HistoryGetMessages(3)

ScenarioSpec == ScenarioInit /\ [][ScenarioNext]_vars

\* ------------------------------------------- the Worker on a failing store
\* Requests to the four routes that touch the store, from any earlier database,
\* with store calls that may throw, while another user of the store saves messages.
FaultBodies ==
    {[EmptyBody EXCEPT !.message = Some(Hello)],
     [EmptyBody EXCEPT !.message = Some(Weather)],
     [EmptyBody EXCEPT !.message = Some(Hello), !.plan = Some(PlanText)]}

FaultInit == PriorInit /\ reqs = [r \in ReqIds |-> IdleReq]

FaultNext ==
    \/ \E r \in DOMAIN reqs, body \in FaultBodies : ChatStart(r, body)
    \/ \E r \in DOMAIN reqs : ChatGetLatest(r)
    \/ \E r \in DOMAIN reqs : ChatCreateThread(r)
    \/ \E r \in DOMAIN reqs : ChatSaveUser(r)
    \/ \E r \in DOMAIN reqs : ChatSaveRedirect(r)
    \/ \E r \in DOMAIN reqs : ChatGetContext(r)
    \/ \E r \in DOMAIN reqs : ChatAnalyze(r)
    \/ \E r \in DOMAIN reqs : ChatSaveResult(r)
    \/ \E r \in DOMAIN reqs : ChatSaveAnalysis(r)
    \/ \E r \in DOMAIN reqs : ChatConverse(r)
    \/ \E r \in DOMAIN reqs : ChatSaveReply(r)
    \/ \E r \in DOMAIN reqs : HistoryStart(r, NoThread)
    \/ \E r \in DOMAIN reqs : HistoryGetLatest(r)
    \/ \E r \in DOMAIN reqs : HistoryGetMessages(r)
    \/ \E r \in DOMAIN reqs : ListStart(r)
    \/ \E r \in DOMAIN reqs : ListThreadsStep(r)
    \/ \E r \in DOMAIN reqs, t \in ThreadIdInputs : SummarizeStart(r, t)
    \/ \E r \in DOMAIN reqs : SummarizeReject(r)
    \/ \E r \in DOMAIN reqs : SummarizeGetText(r)
    \/ \E r \in DOMAIN reqs : SummarizeLlm(r)
    \/ \E r \in DOMAIN reqs : StoreFails(r)
    \/ \E u \in Users \ {GuestUser}, t \in UsedThreadIds, m \in StoreMessages :
          StoreSaveMessage(u, t, m.role, m.content, m.relevant)

FaultSpec == FaultInit /\ [][FaultNext]_vars

\* ------------------------------------------------ the hook and the Worker
\* One mounted hook: the user types, sends and starts new chats, one handler at a
\* time; its requests are served by the Worker.  The user stops sending once the
\* database holds MaxStoreOps messages.
ClientReqs == MaxReqs + 1

ClientInit == PriorInit /\ reqs = [r \in 1..ClientReqs |-> IdleReq]

ClientNext ==
    \/ \E text \in TypedMessages : ClientType(text)
    \/ \E r \in DOMAIN reqs : ClientNewChat(r)
    \/ ClientNewChatResponse
    \/ \E r \in DOMAIN reqs : Len(messages) < MaxStoreOps /\ ClientSend(r)
    \/ \E r \in DOMAIN reqs : ClientSendNewResponse(r)
    \/ ClientSendChatResponse
    \/ \E r \in DOMAIN reqs : FallThrough(r)
    \/ \E r \in DOMAIN reqs : ChatGetLatest(r)
    \/ \E r \in DOMAIN reqs : ChatCreateThread(r)
    \/ \E r \in DOMAIN reqs : ChatSaveUser(r)
    \/ \E r \in DOMAIN reqs : ChatSaveRedirect(r)
    \/ \E r \in DOMAIN reqs : ChatGetContext(r)
    \/ \E r \in DOMAIN reqs : ChatConverse(r)
    \/ \E r \in DOMAIN reqs : ChatSaveReply(r)

ClientSpec == ClientInit /\ [][ClientNext]_vars

\* ------------------------------------- the hook and a Worker that may fail
\* The same hook, its user typing one on-topic message, served by a Worker whose
\* store calls may throw.
SessionReqs == MaxReqs + 2

SessionInit == PriorInit /\ reqs = [r \in 1..SessionReqs |-> IdleReq]

SessionNext ==
    \/ ClientType(Hello)
    \/ \E r \in DOMAIN reqs : ClientNewChat(r)
    \/ ClientNewChatResponse
    \/ \E r \in DOMAIN reqs : Len(messages) < MaxStoreOps /\ ClientSend(r)
    \/ \E r \in DOMAIN reqs : ClientSendNewResponse(r)
    \/ ClientSendChatResponse
    \/ \E r \in DOMAIN reqs : FallThrough(r)
    \/ \E r \in DOMAIN reqs : ChatGetLatest(r)
    \/ \E r \in DOMAIN reqs : ChatCreateThread(r)
    \/ \E r \in DOMAIN reqs : ChatSaveUser(r)
    \/ \E r \in DOMAIN reqs : ChatGetContext(r)
    \/ \E r \in DOMAIN reqs : ChatConverse(r)
    \/ \E r \in DOMAIN reqs : ChatSaveReply(r)
    \/ \E r \in DOMAIN reqs : StoreFails(r)

SessionSpec == SessionInit /\ [][SessionNext]_vars

\* ------------------------------------------------ chat requests, raced
ChatReqs == {r \in DOMAIN reqs : reqs[r].kind = "chat"}

\* Nothing but POST /api/chat requests, RaceReqs of them at once, with an LLM that
\* may fail and store calls that may throw: one request with an on-topic message
\* at most, the others off-topic.
RaceReqs == MaxReqs + 1

RaceBodies ==
    {[EmptyBody EXCEPT !.message = Some(Hello)],
     [EmptyBody EXCEPT !.message = Some(Weather)]}

RaceInit ==
    /\ conversations = <<>>
    /\ messages = <<>>
    /\ analyses = <<>>
    /\ now = 0
    /\ lastOp = NoOp
    /\ reqs = [r \in 1..RaceReqs |-> IdleReq]
    /\ client = IdleClient

RaceNext ==
    \/ \E r \in DOMAIN reqs, body \in RaceBodies :
          /\ body.message = Some(Weather) \/ \A q \in ChatReqs : reqs[q].body.message = Some(Weather)
          /\ ChatStart(r, body)
    \/ \E r \in DOMAIN reqs : ChatGetLatest(r)
    \/ \E r \in DOMAIN reqs : ChatCreateThread(r)
    \/ \E r \in DOMAIN reqs : ChatSaveUser(r)
    \/ \E r \in DOMAIN reqs : ChatSaveRedirect(r)
    \/ \E r \in DOMAIN reqs : ChatGetContext(r)
    \/ \E r \in DOMAIN reqs : ChatConverse(r)
    \/ \E r \in DOMAIN reqs : ChatSaveReply(r)
    \/ \E r \in DOMAIN reqs : StoreFails(r)

RaceSpec == RaceInit /\ [][RaceNext]_vars

\* ------------------------------------------- conversations of any length
\* Chat requests without files on a thread that earlier requests filled with up to
\* MaxThread messages, one a second, user and assistant turns in alternation, each
\* with a text of its own.
MaxThread == 17

LongThread(n) ==
    [i \in 1..n |->
        [userId |-> GuestUser, threadId |-> 1,
         role |-> IF i % 2 = 1 THEN "user" ELSE "assistant",
         content |-> <<ToString(i)>>, relevant |-> 1, createdAt |-> i]]

WindowBodies == {EmptyBody, [EmptyBody EXCEPT !.message = Some(Hello)]}

WindowInit ==
    /\ \E n \in 0..MaxThread : now = n + 1 /\ messages = LongThread(n)
    /\ conversations = <<[ConversationRow(1, GuestUser) EXCEPT !.createdAt = 0]>>
    /\ analyses = <<>>
    /\ lastOp = NoOp
    /\ reqs = [r \in ReqIds |-> IdleReq]
    /\ client = IdleClient

WindowNext ==
    \/ \E r \in DOMAIN reqs, body \in WindowBodies : ChatStart(r, body)
    \/ \E r \in DOMAIN reqs : ChatGetLatest(r)
    \/ \E r \in DOMAIN reqs : ChatSaveUser(r)
    \/ \E r \in DOMAIN reqs : ChatGetContext(r)
    \/ \E r \in DOMAIN reqs : ChatConverse(r)
    \/ \E r \in DOMAIN reqs : ChatSaveReply(r)

WindowSpec == WindowInit /\ [][WindowNext]_vars

\* ------------------------------------------- the hook, handlers overlapping
\* The same hook with every handler the user can start while others await:
\* nothing in the hook keeps a handler from running during another one's await.  Each
\* suspended handler is a task holding what its closure captured when it was
\* called.  The HTTP peer is open here: every awaited fetch or upload ends in one of
\* the outcomes the hook's code tells apart, those of the Worker of server.ts among
\* them.  calls counts the handler calls made, view counts the times the visible
\* chat was replaced (setChat of a new list), a turn carries the view its handler
\* was called in, and selected is the thread the last handleThreadSelect loaded, if
\* no new-chat, thread-select or send was called since.
MaxCalls == 3

FileTypes == {"plan", "metrics"}
Files == {"file1", "file2"}
NoFile == "none"
PeerThreads == {1, 2}

IdleHook ==
    [message |-> EmptyText, chat |-> <<>>, loading |-> FALSE, fileUploads |-> <<>>,
     uploadSessionId |-> 1, currentThreadId |-> NoThread, isNewChat |-> FALSE,
     tasks |-> {}, calls |-> 0, view |-> 0, selected |-> NoThread]

\* A handler suspended at `await`, with the values its closure reads afterwards.
Task(handler, thread, type, file) ==
    [id |-> client.calls + 1, handler |-> handler, thread |-> thread,
     currentThreadId |-> client.currentThreadId, isNewChat |-> client.isNewChat,
     type |-> type, file |-> file, view |-> client.view]

TasksAt(handler) == {t \in client.tasks : t.handler = handler}

\* What a peer can answer, a rejected fetch aside.
NotFoundResp == [NoResp EXCEPT !.status = 404]
AssetResp == [NoResp EXCEPT !.status = 200]

\* POST /api/chat/new
NewChatAnswers ==
    {NotFoundResp, AssetResp, JsonResp(200)}
        \cup {[JsonResp(200) EXCEPT !.threadId = t] : t \in PeerThreads}

\* The messages a peer holds for thread t.
PeerHistory(t) ==
    IF t = 1 THEN <<[role |-> "user", text |-> Hello], [role |-> "assistant", text |-> ReplyText]>>
    ELSE <<[role |-> "user", text |-> Costs]>>

\* GET /api/chat/threads/:threadId/messages
ThreadAnswers(t) == {NotFoundResp, AssetResp, MessagesResp(PeerHistory(t))}

\* POST /api/chat
ChatAnswers == {ChatErrorResp, AssetResp} \cup {ReplyResp(ReplyText, t) : t \in PeerThreads}

\* POST /api/files/upload, as the XMLHttpRequest sees it end.
UploadOutcomes == {"load200", "loadOther", "error"}

Turn(role, text, view) == [role |-> role, text |-> text, view |-> view]

WithoutType(uploads, type) == SelectSeq(uploads, LAMBDA f : f.fileType # type)

\* prev.map((f) => (f.fileType === type ? { ...f, ...change } : f))
MapType(uploads, type, change) ==
    [k \in DOMAIN uploads |->
        IF uploads[k].fileType = type
        THEN [x \in DOMAIN uploads[k] |-> IF x \in DOMAIN change THEN change[x] ELSE uploads[k][x]]
        ELSE uploads[k]]

UploadFailed == [status |-> "error", progress |-> 0]

\* One more handler call, leaving `suspended` awaiting.
Called(c, suspended) == [c EXCEPT !.calls = @ + 1, !.tasks = @ \cup suspended]

HookUnchanged == UNCHANGED <<storeVars, lastOp, reqs>>

\* setMessage(text): the user types a message.
HookType ==
    /\ client.message = EmptyText
    /\ client' = [client EXCEPT !.message = Hello]
    /\ HookUnchanged

\* handleNewChat up to its await.
handleNewChat ==
    /\ client.calls < MaxCalls
    /\ client' = Called([client EXCEPT !.chat = <<>>, !.message = EmptyText,
                                       !.fileUploads = <<>>, !.isNewChat = TRUE,
                                       !.view = @ + 1, !.selected = NoThread],
                        {Task("newChat", NoThread, NoFile, NoFile)})
    /\ HookUnchanged

\* handleNewChat after its await: the thread of an ok JSON answer with a threadId,
\* null in every other case; a new session id in all of them.
NewChatAnswered(t) ==
    /\ t \in TasksAt("newChat")
    /\ \E arrived \in BOOLEAN, resp \in NewChatAnswers :
          LET created == arrived /\ Ok(resp) /\ resp.json /\ resp.threadId # NoThread
          IN client' = generateNewSessionId(
                 [client EXCEPT !.currentThreadId = IF created THEN resp.threadId ELSE NoThread,
                                !.tasks = @ \ {t}])
    /\ HookUnchanged

\* handleThreadSelect(threadId) up to the await of loadThread.
handleThreadSelect(threadId) ==
    /\ client.calls < MaxCalls
    /\ client' = Called([client EXCEPT !.selected = NoThread],
                        {Task("select", threadId, NoFile, NoFile)})
    /\ HookUnchanged

\* loadThread after its await: an ok JSON answer holding messages replaces the
\* chat and makes the thread current; any other answer changes nothing.
ThreadAnswered(t) ==
    /\ t \in TasksAt("select")
    /\ \E arrived \in BOOLEAN, resp \in ThreadAnswers(t.thread) :
          client' =
             IF arrived /\ Ok(resp) /\ resp.json /\ resp.messages # Undefined
             THEN generateNewSessionId(
                     [client EXCEPT
                         !.chat = [k \in DOMAIN resp.messages[1] |->
                                      Turn(resp.messages[1][k].role, resp.messages[1][k].text,
                                           client.view + 1)],
                         !.view = @ + 1,
                         !.currentThreadId = t.thread,
                         !.message = EmptyText,
                         !.fileUploads = <<>>,
                         !.isNewChat = FALSE,
                         !.selected = t.thread,
                         !.tasks = @ \ {t}])
             ELSE [client EXCEPT !.tasks = @ \ {t}]
    /\ HookUnchanged

\* handleSend up to its first await.
handleSend ==
    /\ client.calls < MaxCalls
    /\ IF ~isSendEnabled(client.message, client.fileUploads)
       THEN UNCHANGED vars
       ELSE /\ client' =
                 Called([client EXCEPT
                            !.loading = TRUE, !.message = EmptyText, !.fileUploads = <<>>,
                            !.chat = Append(@, Turn("user",
                                         UserTurn(client.message, client.fileUploads).text,
                                         client.view)),
                            !.selected = NoThread],
                        {Task(IF client.currentThreadId = NoThread /\ client.isNewChat
                              THEN "sendNew" ELSE "sendChat", NoThread, NoFile, NoFile)})
            /\ HookUnchanged

\* The catch block of handleSend and its finally, for the send suspended as t.
HookSendCaught(t) ==
    [client EXCEPT !.chat = Append(@, Turn(ErrorTurn.role, ErrorTurn.text, t.view)),
                   !.loading = FALSE, !.tasks = @ \ {t}]

\* handleSend after awaiting POST /api/chat/new.
SendNewAnswered(t) ==
    /\ t \in TasksAt("sendNew")
    /\ \E arrived \in BOOLEAN, resp \in NewChatAnswers :
          client' =
             IF arrived /\ Ok(resp) /\ resp.json
             THEN [client EXCEPT !.currentThreadId = resp.threadId, !.isNewChat = FALSE,
                                 !.tasks = (@ \ {t}) \cup {[t EXCEPT !.handler = "sendChat"]}]
             ELSE HookSendCaught(t)
    /\ HookUnchanged

\* handleSend after awaiting POST /api/chat.
SendChatAnswered(t) ==
    /\ t \in TasksAt("sendChat")
    /\ \E arrived \in BOOLEAN, resp \in ChatAnswers :
          client' =
             IF ~(arrived /\ resp.json) THEN HookSendCaught(t)
             ELSE IF Truthy(resp.reply)
             THEN generateNewSessionId(
                     [client EXCEPT
                         !.chat = Append(@, Turn("assistant", resp.reply[1], t.view)),
                         !.currentThreadId =
                             IF resp.threadId # NoThread /\ resp.threadId # t.currentThreadId
                             THEN resp.threadId ELSE @,
                         !.isNewChat = IF t.isNewChat THEN FALSE ELSE @,
                         !.loading = FALSE,
                         !.tasks = @ \ {t}])
             ELSE [client EXCEPT !.loading = FALSE, !.tasks = @ \ {t}]
    /\ HookUnchanged

\* handleFileSelect(file, type) up to its first await or, when no thread has to be
\* created first, up to xhr.send; handleFileSelect(null, type) drops the entry.
handleFileSelect(file, type) ==
    /\ client.calls < MaxCalls
    /\ client' =
          IF file = NoFile
          THEN Called([client EXCEPT !.fileUploads = WithoutType(@, type)], {})
          ELSE Called([client EXCEPT
                          !.fileUploads = Append(WithoutType(@, type),
                               [file |-> file, progress |-> 0, status |-> "uploading",
                                fileType |-> type, uploadedFile |-> Undefined])],
                      {Task(IF client.currentThreadId = NoThread /\ client.isNewChat
                            THEN "fileNew" ELSE "xhr", NoThread, type, file)})
    /\ HookUnchanged

\* handleFileSelect after awaiting POST /api/chat/new: the upload starts for an ok
\* JSON answer; the catch block marks the entry of the type as failed otherwise.
FileNewAnswered(t) ==
    /\ t \in TasksAt("fileNew")
    /\ \E arrived \in BOOLEAN, resp \in NewChatAnswers :
          client' =
             IF arrived /\ Ok(resp) /\ resp.json
             THEN [client EXCEPT !.currentThreadId = resp.threadId,
                                 !.tasks = (@ \ {t}) \cup {[t EXCEPT !.handler = "xhr"]}]
             ELSE [client EXCEPT !.fileUploads = MapType(@, t.type, UploadFailed),
                                 !.tasks = @ \ {t}]
    /\ HookUnchanged

UploadProgressed == [progress |-> 50]

\* xhr.upload "progress"
UploadProgress(t) ==
    /\ t \in TasksAt("xhr")
    /\ client' = [client EXCEPT !.fileUploads = MapType(@, t.type, UploadProgressed)]
    /\ client' # client
    /\ HookUnchanged

\* xhr "load" and "error": the upload of t.file has ended.
UploadEnded(t) ==
    /\ t \in TasksAt("xhr")
    /\ \E outcome \in UploadOutcomes :
          LET completed == [status |-> "completed", progress |-> 100,
                            uploadedFile |-> Some(t.file)]
          IN client' = [client EXCEPT
                 !.fileUploads = IF outcome = "load200" THEN MapType(@, t.type, completed)
                                 ELSE MapType(@, t.type, UploadFailed),
                 !.tasks = @ \ {t}]
    /\ HookUnchanged

\* handleRemoveFile(fileType)
handleRemoveFile(fileType) ==
    /\ client.calls < MaxCalls
    /\ \E k \in DOMAIN client.fileUploads : client.fileUploads[k].fileType = fileType
    /\ client' = Called([client EXCEPT !.fileUploads = WithoutType(@, fileType)], {})
    /\ HookUnchanged

HookInit ==
    /\ conversations = <<>>
    /\ messages = <<>>
    /\ analyses = <<>>
    /\ now = 0
    /\ lastOp = NoOp
    /\ reqs = [r \in ReqIds |-> IdleReq]
    /\ client = IdleHook

HookNext ==
    \/ HookType
    \/ handleNewChat
    \/ \E t \in client.tasks : NewChatAnswered(t)
    \/ \E threadId \in PeerThreads : handleThreadSelect(threadId)
    \/ \E t \in client.tasks : ThreadAnswered(t)
    \/ handleSend
    \/ \E t \in client.tasks : SendNewAnswered(t)
    \/ \E t \in client.tasks : SendChatAnswered(t)
    \/ \E file \in Files \cup {NoFile}, type \in FileTypes : handleFileSelect(file, type)
    \/ \E t \in client.tasks : FileNewAnswered(t)
    \/ \E t \in client.tasks : UploadProgress(t)
    \/ \E t \in client.tasks : UploadEnded(t)
    \/ \E type \in FileTypes : handleRemoveFile(type)

HookSpec == HookInit /\ [][HookNext]_vars

\* ------------------------------------------------------------ properties

\* The rows of table `table` request r has inserted, oldest first.
WrittenBy(r, table) == SelectSeq(reqs[r].wrote, LAMBDA w : w.table = table)

MessagesWrittenBy(r) ==
    LET w == WrittenBy(r, "messages") IN [k \in DOMAIN w |-> messages[w[k].id]]

\* C3: a POST /api/chat whose body names an existing thread persists its messages in
\* that thread and answers with that thread id, also when it is not the latest one;
\* it creates no thread.
C3_SuppliedThreadIsUsed ==
    \A r \in ChatReqs :
        LET supplied == reqs[r].body.threadId IN
        (supplied # Undefined /\ supplied[1] \in UsedThreadIds) =>
            /\ \A m \in Range(MessagesWrittenBy(r)) : m.threadId = supplied[1]
            /\ WrittenBy(r, "conversations") = <<>>
            /\ reqs[r].resp.reply # Undefined => reqs[r].resp.threadId = supplied[1]

\* C4: in the end-to-end scenario, from any earlier database, POST /api/chat/new
\* answers with a thread id T1; the POST /api/chat with message "hello" and threadId
\* T1 that follows answers with a reply and threadId T1; and the GET
\* /api/chat/history?threadId=T1 after that answers with exactly two messages, the
\* user's "hello" and then the assistant's reply.
C4_EndToEndScenario ==
    /\ reqs[1].pc = "done" =>
          reqs[1].resp.json /\ reqs[1].resp.threadId \in UsedThreadIds
    /\ (reqs[2].pc = "done" /\ reqs[2].resp.reply # Undefined) =>
          reqs[2].resp.threadId = reqs[1].resp.threadId
    /\ (reqs[3].pc = "done" /\ reqs[2].resp.reply # Undefined) =>
          reqs[3].resp.messages =
             Some(<<[role |-> "user", text |-> Hello],
                    [role |-> "assistant", text |-> reqs[2].resp.reply[1]]>>)

\* C5: GET /api/chat/history?threadId=T answers with the messages of thread T in
\* chronological order, also when T is not the latest thread; without the parameter
\* it answers with the messages of the user's latest thread, and with the empty list
\* when the user has no thread.
HistoryOf(msgs, threadId) ==
    {TransformedMessages(c) : c \in ThreadMessagesIn(msgs, GuestUser, threadId)}

C5_HistoryOfRequestedThread ==
    \A r \in DOMAIN reqs :
        (reqs[r].kind = "history" /\ reqs[r].pc = "done") =>
            LET convs == SubSeq(conversations, 1, reqs[r].seenThreads)
                msgs == SubSeq(messages, 1, reqs[r].seen)
                got == reqs[r].resp.messages
            IN /\ got # Undefined
               /\ IF reqs[r].query # NoThread
                  THEN got[1] \in HistoryOf(msgs, reqs[r].query)
                  ELSE \E t \in LatestThreadIn(convs, GuestUser) :
                          IF t = NoThread THEN got[1] = <<>> ELSE got[1] \in HistoryOf(msgs, t)

\* C6: every POST /api/chat/new inserts exactly one thread row and answers with
\* { threadId } holding the id of that new row.
C6_NewChatCreatesThread ==
    \A r \in DOMAIN reqs :
        (reqs[r].kind = "new" /\ reqs[r].pc = "done") =>
            /\ reqs[r].resp.json
            /\ reqs[r].resp.threadId \in UsedThreadIds
            /\ reqs[r].wrote = <<[table |-> "conversations", id |-> reqs[r].resp.threadId]>>

\* C7: when the LLM call of a POST /api/chat fails (env.AI.run throws or returns no
\* text, in conversation or in analysis mode), the request persists no assistant
\* message and no analysis, the user message it saved before the call stays in the
\* thread, and the answer is status 500 with an error and no reply.
AiFailed(ai) == ai.threw \/ ai.response = Undefined \/ ai.response = Some(EmptyText)

LlmFailedIn(r) == \E k \in DOMAIN reqs[r].llm : AiFailed(reqs[r].llm[k].ai)

SentText(r) == IF reqs[r].body.message = Undefined THEN EmptyText ELSE reqs[r].body.message[1]

C7_LlmFailurePersistsNoReply ==
    \A r \in ChatReqs :
        LlmFailedIn(r) =>
            /\ Len(MessagesWrittenBy(r)) = 1
            /\ MessagesWrittenBy(r)[1].role = "user"
            /\ MessagesWrittenBy(r)[1].content = SentText(r)
            /\ MessagesWrittenBy(r)[1].threadId = reqs[r].threadId
            /\ WrittenBy(r, "analyses") = <<>>
            /\ reqs[r].pc = "done"
            /\ reqs[r].resp.status = 500
            /\ reqs[r].resp.json /\ reqs[r].resp.error
            /\ reqs[r].resp.reply = Undefined

C7_Witness ==
    \E r \in ChatReqs :
        /\ LlmFailedIn(r)
        /\ reqs[r].llm[1].ai = [threw |-> FALSE, response |-> Some(EmptyText)]
        /\ reqs[r].llm[1].prompt.template = "analysis"
        /\ reqs[r].pc = "done"

\* C8: whenever the POST /api/chat of a handleSend fails, by a fetch that rejects or
\* by the Worker's LLM-failure answer (status 500 with JSON { error }), the visible
\* chat holds the fixed assistant error turn right after the user turn of that send.
SendFailed ==
    /\ client.sent.req # 0
    /\ ~client.sent.arrived \/ reqs[client.sent.req].resp.status = 500

C8_FailedSendShowsErrorTurn ==
    (client.pc = "idle" /\ SendFailed) =>
        /\ Len(client.chat) = client.sent.turn + 1
        /\ client.chat[client.sent.turn].role = "user"
        /\ client.chat[client.sent.turn + 1] = ErrorTurn

\* C9: a POST /api/chat whose message matches an off-topic pattern and that carries
\* neither plan nor metrics never invokes the LLM; its reply is the fixed redirect
\* text, and it adds to its thread exactly the user message and then one assistant
\* message holding that text.
OffTopicMessages == {Some(Weather)}

IsOffTopicRequest(r) ==
    /\ reqs[r].body.message \in OffTopicMessages
    /\ reqs[r].body.plan \in {Undefined, Some(EmptyText)}
    /\ reqs[r].body.metrics \in {Undefined, Some(EmptyText)}

C9_OffTopicSkipsLlm ==
    \A r \in ChatReqs :
        IsOffTopicRequest(r) =>
            /\ reqs[r].llm = <<>>
            /\ reqs[r].pc = "done" =>
                  LET rows == MessagesWrittenBy(r) IN
                  /\ reqs[r].resp.status = 200
                  /\ reqs[r].resp.reply = Some(PoliteResponse)
                  /\ Len(rows) = 2
                  /\ rows[1].role = "user" /\ rows[1].content = reqs[r].body.message[1]
                  /\ rows[2].role = "assistant" /\ rows[2].content = PoliteResponse
                  /\ rows[1].threadId = reqs[r].resp.threadId
                  /\ rows[2].threadId = reqs[r].resp.threadId

C9_Witness ==
    \E r \in ChatReqs : IsOffTopicRequest(r) /\ reqs[r].pc = "done"

\* C10: a POST /api/chat in which plan or metrics is non-empty makes one LLM
\* invocation, with the cost-analysis prompt, whatever its message; it uses neither
\* the conversation prompt nor the off-topic redirect.
HasFiles(r) ==
    \/ reqs[r].body.plan \notin {Undefined, Some(EmptyText)}
    \/ reqs[r].body.metrics \notin {Undefined, Some(EmptyText)}

C10_FilesSelectAnalysisPrompt ==
    \A r \in ChatReqs :
        HasFiles(r) =>
            /\ Len(reqs[r].llm) <= 1
            /\ \A k \in DOMAIN reqs[r].llm : reqs[r].llm[k].prompt.template = "analysis"
            /\ \A m \in Range(MessagesWrittenBy(r)) : m.content # PoliteResponse
            /\ reqs[r].resp.reply # Some(PoliteResponse)
            /\ reqs[r].pc = "done" => Len(reqs[r].llm) = 1

C10_Witness ==
    \E r \in ChatReqs :
        /\ reqs[r].body.message = Some(Weather)
        /\ reqs[r].body.plan = Some(PlanText)
        /\ reqs[r].body.metrics = Some(EmptyText)
        /\ reqs[r].pc = "done"
        /\ reqs[r].resp.reply = Some(ReplyText)

\* C11: a message saved with relevant = false and read back by getThreadMessages
\* for its thread comes back with relevant = false, and one saved with relevant =
\* true comes back with relevant = true.
C11_RelevantRoundTrip ==
    lastOp.op = "getThreadMessages" =>
        \A k \in DOMAIN lastOp.ret :
            \E i \in MatchingMessages(lastOp.userId, lastOp.threadId) :
                /\ messages[i].role = lastOp.ret[k].role
                /\ messages[i].content = lastOp.ret[k].content
                /\ RelevantOf(lastOp.ret[k]) = Some(messages[i].relevant = 1)

\* C12: getFullThreadText(userId, threadId) returns "No messages." for a thread in
\* which the user has no message, and never the empty string; otherwise it returns
\* the "role: content" lines of the user's messages in the thread, joined by
\* newlines, in an order ascending in creation time.
Chronological(p) ==
    \A i, j \in DOMAIN p : i < j => messages[p[i]].createdAt <= messages[p[j]].createdAt

C12_FullThreadText ==
    lastOp.op = "getFullThreadText" =>
        LET ids == MatchingMessages(lastOp.userId, lastOp.threadId) IN
        /\ lastOp.ret # EmptyText
        /\ ids = {} => lastOp.ret = NoMessages
        /\ ids # {} =>
              \E p \in Orderings(ids) :
                 /\ Chronological(p)
                 /\ lastOp.ret =
                       JoinLines([k \in DOMAIN p |->
                                    <<messages[p[k]].role, ": ">> \o messages[p[k]].content])

C12_Witness ==
    /\ lastOp.op = "getFullThreadText"
    /\ lastOp.ret = NoMessages
    /\ \E i \in DOMAIN messages : messages[i].threadId = lastOp.threadId

\* C14: what getThreadMessages(u, t), getFullThreadText(u, t), getLatestThread(u)
\* and listThreads(u) return is made of rows whose userId is u only: messages and
\* text lines of u's rows, threads of u, and message counts over u's rows.
OwnMessageCount(userId, threadId) == Cardinality(MatchingMessages(userId, threadId))

OwnThreads(userId) ==
    {conversations[i].threadId : i \in {j \in DOMAIN conversations : conversations[j].userId = userId}}

C14_NoCrossUserAccess ==
    /\ lastOp.op = "getThreadMessages" =>
          /\ Len(lastOp.ret) = OwnMessageCount(lastOp.userId, lastOp.threadId)
          /\ \A k \in DOMAIN lastOp.ret :
                \E i \in MatchingMessages(lastOp.userId, lastOp.threadId) :
                    lastOp.ret[k] = MessageOf(messages[i])
    /\ lastOp.op = "getFullThreadText" =>
          (OwnMessageCount(lastOp.userId, lastOp.threadId) = 0 => lastOp.ret = NoMessages)
    /\ lastOp.op = "getLatestThread" =>
          lastOp.ret \in {NoThread} \cup OwnThreads(lastOp.userId)
    /\ lastOp.op = "listThreads" =>
          \A k \in DOMAIN lastOp.ret :
              /\ lastOp.ret[k].threadId \in OwnThreads(lastOp.userId)
              /\ lastOp.ret[k].msgCount = OwnMessageCount(lastOp.userId, lastOp.ret[k].threadId)

\* C15: listThreads(userId) returns every thread of the user exactly once, newest
\* first, each with a msgCount equal to the number of messages
\* getThreadMessages(userId, threadId) returns for it.
C15_ListThreads ==
    lastOp.op = "listThreads" =>
        /\ Len(lastOp.ret) = Cardinality(OwnThreads(lastOp.userId))
        /\ {lastOp.ret[k].threadId : k \in DOMAIN lastOp.ret} = OwnThreads(lastOp.userId)
        /\ \A i, j \in DOMAIN lastOp.ret :
              i < j => lastOp.ret[i].createdAt >= lastOp.ret[j].createdAt
        /\ \A k \in DOMAIN lastOp.ret :
              \A msgs \in ThreadMessagesResults(lastOp.userId, lastOp.ret[k].threadId) :
                  lastOp.ret[k].msgCount = Len(msgs)

\* C17: a POST /api/chat whose message is empty or absent and that carries neither
\* plan nor metrics is rejected before the LLM path: it invokes no LLM and persists
\* no message row.
IsEmptyRequest(r) ==
    /\ reqs[r].body.message \in {Undefined, Some(EmptyText)}
    /\ reqs[r].body.plan \in {Undefined, Some(EmptyText)}
    /\ reqs[r].body.metrics \in {Undefined, Some(EmptyText)}

C17_EmptyRequestRejected ==
    \A r \in ChatReqs :
        IsEmptyRequest(r) => reqs[r].llm = <<>> /\ MessagesWrittenBy(r) = <<>>

\* C19: analysis rows exist only for POST /api/chat requests that carried plan or
\* metrics, one for each such request that obtained an LLM result and none for any
\* other; each has the threadId and the result text of the assistant message its
\* request persisted.
AnalysesWrittenBy(r) ==
    LET w == WrittenBy(r, "analyses") IN [k \in DOMAIN w |-> analyses[w[k].id]]

AssistantMessagesWrittenBy(r) == SelectSeq(MessagesWrittenBy(r), LAMBDA m : m.role = "assistant")

ObtainedResult(r) == reqs[r].llm # <<>> /\ ~LlmFailedIn(r)

NothingToSend ==
    /\ Trim(client.message) = EmptyText
    /\ \A k \in DOMAIN client.fileUploads : client.fileUploads[k].status # "completed"

C13_MessagesAppendOnly ==
    [][/\ Len(messages') >= Len(messages)
       /\ \A i \in DOMAIN messages : messages'[i] = messages[i]]_vars

C13_Witness ==
    /\ \E i \in DOMAIN messages : messages[i].userId # GuestUser
    /\ \E r \in DOMAIN reqs : reqs[r].pc = "done" /\ Len(MessagesWrittenBy(r)) = 2

\* C18: in the history, chat, list and summarize handlers, a failing call of the
\* store is answered with a 500-class JSON error, and the rows the request wrote
\* before the failure stay in the database.
RowsOf(table) ==
    IF table = "conversations" THEN conversations
    ELSE IF table = "messages" THEN messages ELSE analyses

C18_StorageFailureIs500 ==
    \A r \in DOMAIN reqs :
        (reqs[r].fault /\ reqs[r].pc = "done") =>
            /\ reqs[r].resp.status >= 500
            /\ reqs[r].resp.json /\ reqs[r].resp.error
            /\ \A k \in DOMAIN reqs[r].wrote :
                  reqs[r].wrote[k].id \in DOMAIN RowsOf(reqs[r].wrote[k].table)

\* C21: a failed thread creation leaves no thread id without a conversations row in
\* use: the hook's currentThreadId is always null or the id of a thread that has a
\* row; a handleSend whose POST /api/chat/new fails (rejected, non-ok or no JSON
\* threadId) sends no POST /api/chat; and a POST /api/chat whose createThread
\* throws inserts no row at all and answers without a thread id.
ThreadCreated(resp) == Ok(resp) /\ resp.json /\ resp.threadId # NoThread

C21_NoThreadWithoutRow ==
    /\ [](client.currentThreadId \in {NoThread} \cup UsedThreadIds)
    /\ [](\A r \in ChatReqs :
             reqs[r].failedAt = "create" =>
                 /\ reqs[r].wrote = <<>>
                 /\ reqs[r].resp.threadId = NoThread
                 /\ reqs[r].resp.reply = Undefined)
    /\ [][((\E r \in DOMAIN reqs : ClientSendNewResponse(r))
              /\ ~(ThreadCreated(reqs[client.req].resp) /\ client'.pc = "sendChat")) =>
             (reqs' = reqs /\ client'.pc = "idle" /\ Last(client'.chat) = ErrorTurn)]_vars

C21_Witness ==
    /\ \E r \in ChatReqs : reqs[r].failedAt = "create"
    /\ \E r \in DOMAIN reqs : reqs[r].kind = "new" /\ reqs[r].pc = "done" /\ client.req = 0
    /\ client.pc = "idle"
    /\ client.isNewChat
    /\ client.chat # <<>>
    /\ Last(client.chat) = ErrorTurn

\* C22: when handleThreadSelect(T) has loaded thread T, the current thread is T, the
\* visible chat is the history loaded for T and no upload is pending; and T stays
\* the current thread until the next call of handleNewChat, handleThreadSelect or
\* handleSend, whatever handlers called before the selection complete after it.
VisibleChat(chat) == [k \in DOMAIN chat |-> [role |-> chat[k].role, text |-> chat[k].text]]

C22_SelectedThreadStays ==
    /\ [](client.selected # NoThread => client.currentThreadId = client.selected)
    /\ [][\A t \in client.tasks :
            (ThreadAnswered(t) /\ client'.view # client.view) =>
                /\ client'.currentThreadId = t.thread
                /\ VisibleChat(client'.chat) = PeerHistory(t.thread)
                /\ client'.fileUploads = <<>>]_vars

\* C27: fileUploads holds at most one entry per file type, and an entry that is
\* completed carries the uploaded file the server returned for the file of that
\* entry, however handleFileSelect calls and upload callbacks interleave.
C27_UploadEntriesConsistent ==
    /\ \A type \in FileTypes :
          Len(SelectSeq(client.fileUploads, LAMBDA f : f.fileType = type)) <= 1
    /\ \A k \in DOMAIN client.fileUploads :
          client.fileUploads[k].status = "completed" =>
              client.fileUploads[k].uploadedFile = Some(client.fileUploads[k].file)

\* C28: the visible chat holds turns of the chat on display only: every turn was
\* put there by a handler called since the chat was last replaced, and the answer
\* to a handleSend called before that neither adds a turn nor changes the current
\* thread.
C28_ChatOfActiveThreadOnly ==
    /\ [](\A k \in DOMAIN client.chat : client.chat[k].view = client.view)
    /\ [][\A t \in client.tasks :
            (SendChatAnswered(t) /\ t.view # client.view) =>
                /\ client'.chat = client.chat
                /\ client'.currentThreadId = client.currentThreadId]_vars

\* C23: every POST /api/chat runs its steps in pipeline order: a message is inserted
\* only into the thread the request resolved or created, the first one being the
\* user message; the LLM is invoked only after the user message is inserted; an
\* assistant message other than the fixed redirect is inserted only after an LLM
\* invocation that returned its text; and a response carries a reply only when an
\* assistant message holding that reply is stored in the thread the response names.
C23_PipelineOrder ==
    \A r \in ChatReqs :
        LET rows == MessagesWrittenBy(r) IN
        /\ rows # <<>> =>
              /\ reqs[r].threadId \in UsedThreadIds
              /\ \A k \in DOMAIN rows : rows[k].threadId = reqs[r].threadId
              /\ rows[1].role = "user" /\ rows[1].content = SentText(r)
              /\ \A k \in DOMAIN rows : k > 1 => rows[k].role = "assistant"
        /\ reqs[r].llm # <<>> => rows # <<>>
        /\ \A k \in DOMAIN rows :
              (rows[k].role = "assistant" /\ rows[k].content # PoliteResponse) =>
                  /\ reqs[r].llm # <<>>
                  /\ callLlama(Last(reqs[r].llm).ai).ok
                  /\ rows[k].content = callLlama(Last(reqs[r].llm).ai).text
        /\ reqs[r].resp.reply # Undefined =>
              \E k \in DOMAIN rows :
                  /\ rows[k].role = "assistant"
                  /\ rows[k].content = reqs[r].resp.reply[1]
                  /\ rows[k].threadId = reqs[r].resp.threadId

C23_Witness ==
    \E r \in ChatReqs :
        /\ reqs[r].pc = "done"
        /\ reqs[r].resp.reply = Some(ReplyText)
        /\ reqs[r].llm # <<>>
        /\ Len(MessagesWrittenBy(r)) = 2
        /\ WrittenBy(r, "conversations") # <<>>

\* C24: in general-conversation mode the LLM gets a bounded trailing window of the
\* thread, however long the thread: at most 10 history turns and then the new user
\* turn, and a system turn that embeds at most 15 "role: content" lines; the turns
\* and the lines are the last messages of the thread as it was when the handler
\* read it, oldest first.
Suffix(s, n) ==
    LET len == IF Len(s) < n THEN Len(s) ELSE n
    IN [k \in 1..len |-> s[Len(s) - len + k]]

C24_BoundedTrailingWindow ==
    \A r \in ChatReqs : \A k \in DOMAIN reqs[r].llm :
        LET p == reqs[r].llm[k].prompt IN
        p.template = "conversation" =>
            LET history == SubSeq(p.turns, 1, Len(p.turns) - 1)
                own == WrittenBy(r, "messages")[1].id
            IN /\ Len(p.turns) >= 1
               /\ Last(p.turns) = [role |-> "user", content |-> SentText(r)]
               /\ Len(history) <= 10
               /\ Len(p.embedded) <= 15
               /\ \E m \in own..Len(messages) :
                     \E thread \in ThreadMessagesIn(SubSeq(messages, 1, m), GuestUser,
                                                    reqs[r].threadId) :
                         /\ history = Suffix(thread, 10)
                         /\ p.embedded = [j \in DOMAIN Suffix(thread, 15) |->
                                             <<Suffix(thread, 15)[j].role, ": ">>
                                                 \o Suffix(thread, 15)[j].content]

C24_Witness ==
    \E r \in ChatReqs :
        /\ reqs[r].pc = "done"
        /\ reqs[r].resp.reply = Some(ReplyText)
        /\ Len(messages) > 17
        /\ Len(reqs[r].llm[1].prompt.turns) = 11
        /\ Len(reqs[r].llm[1].prompt.embedded) = 15
        /\ reqs[r].llm[1].prompt.turns[1].content = <<"9">>

\* C25: in general-conversation mode the new user message is in the turn list once,
\* as its last turn: the history turns before it are messages that were in the
\* thread before the request inserted anything.
C25_NewMessageOnce ==
    \A r \in ChatReqs : \A k \in DOMAIN reqs[r].llm :
        LET p == reqs[r].llm[k].prompt IN
        p.template = "conversation" =>
            LET history == SubSeq(p.turns, 1, Len(p.turns) - 1)
                own == WrittenBy(r, "messages")[1].id
                before == {i \in MatchingMessages(GuestUser, reqs[r].threadId) : i < own}
            IN /\ Last(p.turns) = [role |-> "user", content |-> SentText(r)]
               /\ Len(history) <= Cardinality(before)
               /\ \A j \in DOMAIN history :
                     \E i \in before : MessageOf(messages[i]) = history[j]

\* C26: whatever POST /api/chat requests ran, failed, stopped half-way or raced, in
\* every thread every prefix of the messages in insertion order holds at least as
\* many user messages as assistant messages, and each assistant message comes
\* after the user message of the request that inserted it, in the same thread.
RoleCount(threadId, role, n) ==
    Cardinality({i \in 1..n : messages[i].threadId = threadId /\ messages[i].role = role})

C26_UserBeforeAssistant ==
    /\ \A t \in UsedThreadIds : \A n \in 0..Len(messages) :
          RoleCount(t, "user", n) >= RoleCount(t, "assistant", n)
    /\ \A r \in ChatReqs :
          LET w == WrittenBy(r, "messages") IN
          \A a \in DOMAIN w :
              messages[w[a].id].role = "assistant" =>
                  \E u \in DOMAIN w :
                      /\ w[u].id < w[a].id
                      /\ messages[w[u].id].role = "user"
                      /\ messages[w[u].id].threadId = messages[w[a].id].threadId

C26_Witness ==
    \E r, q \in ChatReqs :
        /\ reqs[r].pc = "done" /\ reqs[q].pc = "done"
        /\ Len(WrittenBy(r, "messages")) = 2
        /\ Len(WrittenBy(q, "messages")) = 1
        /\ reqs[q].resp.status = 500
        /\ reqs[r].threadId = reqs[q].threadId
        /\ WrittenBy(r, "messages")[1].id < WrittenBy(q, "messages")[1].id
        /\ WrittenBy(q, "messages")[1].id < WrittenBy(r, "messages")[2].id

====
